---- MODULE Spec2Model ----
(***************************************************************************)
(* Model of download_album.py: the configuration parser, the timestamp     *)
(* conversion, and the sequential pipeline of main() (fetch, probe, split, *)
(* tag, cleanup) with its external collaborators as nondeterministic       *)
(* outcomes.  Strings are sequences of one-character strings so that the   *)
(* parsing and formatting steps are computed, not assumed.  Durations are  *)
(* whole seconds.                                                          *)
(***************************************************************************)
EXTENDS Integers, Sequences, FiniteSets, TLC

\* ------------------------------------------------------------------ bounds
MaxTsLen == 5
MaxTracks == 3

\* ------------------------------------------------- character-level helpers
DigitChars == <<"0", "1", "2", "3", "4", "5", "6", "7", "8", "9">>

IsDigit(c) == \E d \in 1..10 : DigitChars[d] = c

DigitVal(c) == (CHOOSE d \in 1..10 : DigitChars[d] = c) - 1

IsSpace(c) == c \in {" ", "\t"}

RECURSIVE LStrip(_)
LStrip(s) == IF s # <<>> /\ IsSpace(Head(s)) THEN LStrip(Tail(s)) ELSE s

RECURSIVE RStrip(_)
RStrip(s) ==
    IF s # <<>> /\ IsSpace(s[Len(s)]) THEN RStrip(SubSeq(s, 1, Len(s) - 1)) ELSE s

\* str.strip()
Strip(s) == RStrip(LStrip(s))

\* str.startswith(p)
StartsWith(s, p) == Len(s) >= Len(p) /\ SubSeq(s, 1, Len(p)) = p

\* position of the first occurrence of character c in s, 0 when there is none
FirstIndex(s, c) ==
    IF \E k \in 1..Len(s) : s[k] = c
    THEN CHOOSE k \in 1..Len(s) : s[k] = c /\ \A j \in 1..(k - 1) : s[j] # c
    ELSE 0

\* str.split(c): every field between separators, empty fields kept
RECURSIVE Split(_, _)
Split(s, c) ==
    LET k == FirstIndex(s, c)
    IN  IF k = 0 THEN <<s>>
        ELSE <<SubSeq(s, 1, k - 1)>> \o Split(SubSeq(s, k + 1, Len(s)), c)

\* line.split(":", 1)[1].strip() for a line known to contain ":"
ValueAfterColon(line) ==
    Strip(SubSeq(line, FirstIndex(line, ":") + 1, Len(line)))

\* value of a string of decimal digits
RECURSIVE DecimalValue(_)
DecimalValue(s) ==
    IF s = <<>> THEN 0
    ELSE 10 * DecimalValue(SubSeq(s, 1, Len(s) - 1)) + DigitVal(s[Len(s)])

\* int(text): surrounding whitespace stripped, one optional sign, then decimal
\* digits in which single underscores may separate digits; anything else is a
\* ValueError (ok = FALSE).
PyInt(text) ==
    LET s == Strip(text)
        signed == s # <<>> /\ Head(s) \in {"+", "-"}
        body == IF signed THEN Tail(s) ELSE s
        wellFormed ==
            /\ body # <<>>
            /\ IsDigit(body[1])
            /\ IsDigit(body[Len(body)])
            /\ \A k \in 1..Len(body) : IsDigit(body[k]) \/ body[k] = "_"
            /\ \A k \in 1..(Len(body) - 1) : ~(body[k] = "_" /\ body[k + 1] = "_")
        digits == SelectSeq(body, IsDigit)
        magnitude == DecimalValue(digits)
    IN  IF wellFormed
        THEN [ok |-> TRUE, val |-> IF signed /\ Head(s) = "-" THEN 0 - magnitude ELSE magnitude]
        ELSE [ok |-> FALSE, val |-> 0]

ValueError == [ok |-> FALSE, val |-> 0]

\* timestamp_to_seconds: MM:SS or HH:MM:SS to seconds, ValueError otherwise
timestamp_to_seconds(timestamp) ==
    LET parts == Split(timestamp, ":")
    IN  IF Len(parts) = 2
        THEN LET minutes == PyInt(parts[1])
                 seconds == PyInt(parts[2])
             IN  IF minutes.ok /\ seconds.ok
                 THEN [ok |-> TRUE, val |-> minutes.val * 60 + seconds.val]
                 ELSE ValueError
        ELSE IF Len(parts) = 3
        THEN LET hours == PyInt(parts[1])
                 minutes == PyInt(parts[2])
                 seconds == PyInt(parts[3])
             IN  IF hours.ok /\ minutes.ok /\ seconds.ok
                 THEN [ok |-> TRUE,
                       val |-> hours.val * 3600 + minutes.val * 60 + seconds.val]
                 ELSE ValueError
        ELSE ValueError

\* zero-based count of leading decimal digits of s from position k on
RECURSIVE DigitRun(_, _)
DigitRun(s, k) == IF k <= Len(s) /\ IsDigit(s[k]) THEN 1 + DigitRun(s, k + 1) ELSE 0

RECURSIVE SpaceRun(_, _)
SpaceRun(s, k) == IF k <= Len(s) /\ IsSpace(s[k]) THEN 1 + SpaceRun(s, k + 1) ELSE 0

\* re.match(r'^(\d+:\d+(?::\d+)?)\s+(.+)$', line): the timestamp and the title
\* of a tracklist line, ok = FALSE when the line does not match
TrackMatch(line) ==
    LET d1 == DigitRun(line, 1)
        c1 == d1 + 1
        d2 == DigitRun(line, c1 + 1)
        e2 == c1 + d2
        two == d1 >= 1 /\ c1 <= Len(line) /\ line[c1] = ":" /\ d2 >= 1
        d3 == DigitRun(line, e2 + 2)
        three == two /\ e2 + 1 <= Len(line) /\ line[e2 + 1] = ":" /\ d3 >= 1
        e == IF three THEN e2 + 1 + d3 ELSE e2
        w == SpaceRun(line, e + 1)
    IN  IF two /\ w >= 1 /\ e + w < Len(line)
        THEN [ok |-> TRUE,
              timestamp |-> SubSeq(line, 1, e),
              title |-> SubSeq(line, e + w + 1, Len(line))]
        ELSE [ok |-> FALSE, timestamp |-> <<>>, title |-> <<>>]

\* Python's None for an unset configuration key (no string equals it: every
\* element of a string is one character)
None == <<"None">>

EmptyConfig ==
    [url |-> None, artist |-> None, album |-> None, year |-> None, tracklist |-> <<>>]

\* one iteration of the loop over content.splitlines()
ParseLine(config, rawLine) ==
    LET line == Strip(rawLine)
        m == TrackMatch(line)
    IN  IF line = <<>> \/ Head(line) = "#" THEN config
        ELSE IF StartsWith(line, <<"u", "r", "l", ":">>)
        THEN [config EXCEPT !.url = ValueAfterColon(line)]
        ELSE IF StartsWith(line, <<"a", "r", "t", "i", "s", "t", ":">>)
        THEN [config EXCEPT !.artist = ValueAfterColon(line)]
        ELSE IF StartsWith(line, <<"a", "l", "b", "u", "m", ":">>)
        THEN [config EXCEPT !.album = ValueAfterColon(line)]
        ELSE IF StartsWith(line, <<"y", "e", "a", "r", ":">>)
        THEN [config EXCEPT !.year = ValueAfterColon(line)]
        ELSE IF m.ok
        THEN [config EXCEPT !.tracklist = Append(@, <<Strip(m.title), m.timestamp>>)]
        ELSE config

RECURSIVE ParseLines(_, _)
ParseLines(config, lines) ==
    IF lines = <<>> THEN config
    ELSE ParseLines(ParseLine(config, Head(lines)), Tail(lines))

\* "not value" for a configuration value: None or the empty string
Falsy(v) == v = None \/ v = <<>>

\* the keys that fail the required-field validation
MissingNoAlbum(config) ==
    {k \in {"url", "artist"} : Falsy(config[k])}
        \cup (IF config.tracklist = <<>> THEN {"tracklist"} ELSE {})

Missing(config) ==
    {k \in {"url", "artist", "album"} : Falsy(config[k])}
        \cup (IF config.tracklist = <<>> THEN {"tracklist"} ELSE {})

\* ------------------------------------------------------------ formatting
\* str(n) for n >= 0
RECURSIVE Str(_)
Str(n) == IF n < 10 THEN <<DigitChars[n + 1]>>
          ELSE Str(n \div 10) \o <<DigitChars[(n % 10) + 1]>>

\* f"{i:02d}"
TrackNum(i) == IF i < 10 THEN <<"0">> \o Str(i) ELSE Str(i)

\* title.replace("/", "-")
SafeTitle(title) == [k \in 1..Len(title) |-> IF title[k] = "/" THEN "-" ELSE title[k]]

\* name of the output file of track i inside the album folder
OutputFile(i, title) ==
    TrackNum(i) \o <<" ", "-", " ">> \o SafeTitle(title) \o <<".", "m", "p", "3">>

\* f"{i}/{len(tracklist)}"
TrckTextZeroBased(i, n) == Str(i - 1) \o <<"/">> \o Str(n)

TrckText(i, n) == Str(i) \o <<"/">> \o Str(n)

\* duration of track i (1-based) as computed inside the loop of split_audio
DurationFromTotal(tracklist, i, total) ==
    total - timestamp_to_seconds(tracklist[i][2]).val

Duration(tracklist, i, total) ==
    LET start_seconds == timestamp_to_seconds(tracklist[i][2]).val
    IN  IF i < Len(tracklist)
        THEN timestamp_to_seconds(tracklist[i + 1][2]).val - start_seconds
        ELSE total - start_seconds

\* ------------------------------------------------------- configuration texts
UrlLine == <<"u", "r", "l", ":", " ", "x">>

UrlEmptyLine == <<"u", "r", "l", ":">>

ArtistLine == <<"a", "r", "t", "i", "s", "t", ":", " ", "a">>

ArtistEmptyLine == <<"a", "r", "t", "i", "s", "t", ":">>

AlbumLine == <<"a", "l", "b", "u", "m", ":", " ", "b">>

AlbumEmptyLine == <<"a", "l", "b", "u", "m", ":", " ">>

YearLine == <<"y", "e", "a", "r", ":", " ", "1">>

TrackLineA == <<"0", ":", "0", "0", " ", "A">>

TrackLineB == <<"2", ":", "0", "5", " ", "B", "/", "C">>

TrackLineD == <<"5", ":", "0", "0", " ", "D">>

TrackLineE == <<"0", ":", "0", ":", "5", "0", " ", "E">>

CommentLine == <<"#", " ", "c">>

JunkLine == <<"1", ":", "2", ":", "3", ":", "4", " ", "X">>

BlankLine == <<" ">>


\* the choices for one key: no line, a line with an empty value, a proper line
UrlChoices == {<<>>, <<UrlEmptyLine>>, <<UrlLine>>}

ArtistChoices == {<<>>, <<ArtistEmptyLine>>, <<ArtistLine>>}

AlbumChoices == {<<>>, <<AlbumEmptyLine>>, <<AlbumLine>>}

YearChoices == {<<>>, <<YearLine>>}

\* lines parse_config skips: a comment, a line matching nothing, a blank line
NoiseChoices == {<<>>, <<CommentLine, JunkLine, BlankLine>>}

BodyLines == {TrackLineA, TrackLineB, TrackLineD, TrackLineE}

Bodies == UNION {[1..n -> BodyLines] : n \in 0..MaxTracks}

ConfigTexts ==
    {u \o a \o x \o b \o y \o t :
        u \in UrlChoices, a \in ArtistChoices, x \in NoiseChoices,
        b \in AlbumChoices, y \in YearChoices, t \in Bodies}

\* durations (seconds) the prober may report
ProbeDurations == {0, 40, 180, 400}

TsAlphabet == {"0", "7", ":", "-", "+", "a", " ", "_"}

TsStrings == UNION {[1..n -> TsAlphabet] : n \in 0..MaxTsLen}

\* ------------------------------------------------------------------ state
VARIABLES
    input,           \* album.txt: [exists, lines]
    pc,              \* position of main()
    config,          \* result of parse_config
    audioFile,       \* output/.temp/full_audio.mp3: "absent", "present", "deleted"
    total_duration,  \* value returned by get_audio_duration
    i,               \* loop counter of split_audio / add_metadata
    track_files,     \* output_files of split_audio
    calls,           \* the external invocations made so far, in order
    disk,            \* files in the album folder: name -> [ss, t, tags]
    exitStatus,      \* -1 while running, else the process exit status
    failed,          \* the stage whose failure ended the run, "none" otherwise
    ts,              \* argument of a stand-alone timestamp_to_seconds call
    tsDone,          \* whether that call has been made
    tsResult         \* its result

vars == <<input, pc, config, audioFile, total_duration, i, track_files, calls,
          disk, exitStatus, failed, ts, tsDone, tsResult>>

tsVars == <<ts, tsDone, tsResult>>

mainVars == <<input, pc, config, audioFile, total_duration, i, track_files, calls,
              disk, exitStatus, failed>>

NoTags == <<>>

\* one external invocation: its arguments, how it ended, and whether the
\* fetched artifact was on disk when it was made
Call(cap, idx, ss, t, file, tags, result) ==
    [cap |-> cap, idx |-> idx, ss |-> ss, t |-> t, file |-> file, tags |-> tags,
     result |-> result, artifact |-> audioFile]

\* disk after file name holds contents
WriteFile(d, name, contents) ==
    [f \in (DOMAIN d) \cup {name} |-> IF f = name THEN contents ELSE d[f]]

MainInit ==
    /\ pc = "parse_config"
    /\ config = EmptyConfig
    /\ audioFile = "absent"
    /\ total_duration = 0
    /\ i = 0
    /\ track_files = <<>>
    /\ calls = <<>>
    /\ disk = <<>>
    /\ exitStatus = -1
    /\ failed = "none"

Init ==
    /\ input \in {[exists |-> FALSE, lines |-> <<>>]}
                    \cup {[exists |-> TRUE, lines |-> t] : t \in ConfigTexts}
    /\ MainInit
    /\ ts = <<>>
    /\ tsDone = FALSE
    /\ tsResult = ValueError

\* sys.exit(1) from inside parse_config (it runs outside the try block)
ConfigExit ==
    /\ pc' = "exit"
    /\ exitStatus' = 1
    /\ failed' = "config"
    /\ UNCHANGED <<config>>

\* main, lines 233-258: parse_config and the set-up before the try block
parse_config ==
    /\ pc = "parse_config"
    /\ IF ~input.exists
       THEN ConfigExit
       ELSE LET parsed == ParseLines(EmptyConfig, input.lines)
            IN  IF Missing(parsed) # {}
                THEN ConfigExit
                ELSE /\ config' = parsed
                     /\ pc' = "download_audio"
                     /\ UNCHANGED <<exitStatus, failed>>
    /\ UNCHANGED <<input, audioFile, total_duration, i, track_files, calls, disk>>
    /\ UNCHANGED tsVars

\* an exception reaches the except clauses of main
Raise(stage) ==
    /\ pc' = "except"
    /\ failed' = stage

\* download_audio: yt-dlp fails, reports success without leaving the file,
\* or leaves full_audio.mp3
download_audio_unchecked ==
    /\ pc = "download_audio"
    /\ \E outcome \in {"error", "no_artifact", "ok"} :
          /\ calls' = Append(calls, Call("fetch", 0, 0, 0, config.url, NoTags, outcome))
          /\ pc' = "get_audio_duration"
          /\ audioFile' = IF outcome = "ok" THEN "present" ELSE audioFile
          /\ UNCHANGED failed
    /\ UNCHANGED <<input, config, total_duration, i, track_files, disk, exitStatus>>
    /\ UNCHANGED tsVars

download_audio ==
    /\ pc = "download_audio"
    /\ \E outcome \in {"error", "no_artifact", "ok"} :
          /\ calls' = Append(calls, Call("fetch", 0, 0, 0, config.url, NoTags, outcome))
          /\ IF outcome = "ok"
             THEN /\ audioFile' = "present"
                  /\ pc' = "get_audio_duration"
                  /\ UNCHANGED failed
             ELSE /\ Raise("fetch")
                  /\ UNCHANGED audioFile
    /\ UNCHANGED <<input, config, total_duration, i, track_files, disk, exitStatus>>
    /\ UNCHANGED tsVars

\* get_audio_duration: ffprobe fails, prints something float() rejects, or
\* prints a duration
get_audio_duration ==
    /\ pc = "get_audio_duration"
    /\ \/ \E outcome \in {"error", "unparsable"} :
             /\ calls' = Append(calls, Call("probe", 0, 0, 0, <<>>, NoTags, outcome))
             /\ Raise("probe")
             /\ UNCHANGED <<total_duration, i>>
       \/ \E d \in ProbeDurations :
             /\ calls' = Append(calls, Call("probe", 0, 0, 0, <<>>, NoTags, "ok"))
             /\ total_duration' = d
             /\ i' = 1
             /\ pc' = "split_audio"
             /\ UNCHANGED failed
    /\ UNCHANGED <<input, config, audioFile, track_files, disk, exitStatus>>
    /\ UNCHANGED tsVars

\* contents of a segment file as the transcoder leaves it
Slice(ss, t, complete) == [ss |-> ss, t |-> t, complete |-> complete, tags |-> NoTags]

\* split_audio, one iteration of its loop: ffmpeg is run on track i and
\* succeeds, fails, or fails leaving a partial file; the last iteration
\* returns to main
split_audio ==
    /\ pc = "split_audio"
    /\ i <= Len(config.tracklist)
    /\ LET tracklist == config.tracklist
           title == tracklist[i][1]
           output_file == OutputFile(i, title)
           start == timestamp_to_seconds(tracklist[i][2])
           nextOk == i < Len(tracklist) => timestamp_to_seconds(tracklist[i + 1][2]).ok
           duration == Duration(tracklist, i, total_duration)
       IN  IF ~(start.ok /\ nextOk)
           THEN /\ Raise("split")
                /\ UNCHANGED <<calls, disk, track_files, i>>
           ELSE \E outcome \in {"ok", "error", "error_partial"} :
                   /\ calls' = Append(calls,
                          Call("transcode", i, start.val, duration, output_file,
                               NoTags, outcome))
                   /\ IF outcome = "ok"
                      THEN /\ disk' = WriteFile(disk, output_file,
                                                Slice(start.val, duration, TRUE))
                           /\ track_files' = Append(track_files, output_file)
                           /\ IF i < Len(tracklist)
                              THEN i' = i + 1 /\ pc' = "split_audio"
                              ELSE i' = 1 /\ pc' = "add_metadata"
                           /\ UNCHANGED failed
                      ELSE /\ Raise("split")
                           /\ disk' = IF outcome = "error_partial"
                                      THEN WriteFile(disk, output_file,
                                                     Slice(start.val, duration, FALSE))
                                      ELSE disk
                           /\ UNCHANGED <<track_files, i>>
    /\ UNCHANGED <<input, config, audioFile, total_duration, exitStatus>>
    /\ UNCHANGED tsVars

\* the frames add_metadata writes for track i
Tags(k) ==
    [title |-> config.tracklist[k][1],
     artist |-> config.artist,
     album |-> config.album,
     trck |-> TrckText(k, Len(config.tracklist)),
     year |-> IF Falsy(config.year) THEN None ELSE config.year]

Min(a, b) == IF a <= b THEN a ELSE b

\* add_metadata, one iteration over zip(files, tracklist) with a failing
\* save attempted again instead of propagating
add_metadata_retry ==
    /\ pc = "add_metadata"
    /\ i <= Min(Len(track_files), Len(config.tracklist))
    /\ LET filepath == track_files[i]
       IN  \E outcome \in {"ok", "error"} :
              /\ calls' = Append(calls,
                     Call("tag", i, 0, 0, filepath, Tags(i), outcome))
              /\ IF outcome = "ok"
                 THEN /\ disk' = [disk EXCEPT ![filepath].tags = Tags(i)]
                      /\ IF i < Min(Len(track_files), Len(config.tracklist))
                         THEN i' = i + 1 /\ pc' = "add_metadata"
                         ELSE i' = i /\ pc' = "cleanup"
                      /\ UNCHANGED failed
                 ELSE /\ IF Len(calls) < 2 * Len(config.tracklist) + 3
                         THEN UNCHANGED <<pc, failed>>
                         ELSE Raise("tag")
                      /\ UNCHANGED <<disk, i>>
    /\ UNCHANGED <<input, config, audioFile, total_duration, track_files, exitStatus>>
    /\ UNCHANGED tsVars

\* add_metadata, one iteration over zip(files, tracklist): the tags of
\* track i are saved into its file, or mutagen raises
add_metadata ==
    /\ pc = "add_metadata"
    /\ i <= Min(Len(track_files), Len(config.tracklist))
    /\ LET filepath == track_files[i]
       IN  \E outcome \in {"ok", "error"} :
              /\ calls' = Append(calls,
                     Call("tag", i, 0, 0, filepath, Tags(i), outcome))
              /\ IF outcome = "ok"
                 THEN /\ disk' = [disk EXCEPT ![filepath].tags = Tags(i)]
                      /\ IF i < Min(Len(track_files), Len(config.tracklist))
                         THEN i' = i + 1 /\ pc' = "add_metadata"
                         ELSE i' = i /\ pc' = "cleanup"
                      /\ UNCHANGED failed
                 ELSE /\ Raise("tag")
                      /\ UNCHANGED <<disk, i>>
    /\ UNCHANGED <<input, config, audioFile, total_duration, track_files, exitStatus>>
    /\ UNCHANGED tsVars

\* main, lines 276-289: unlink the fetched file, remove the temp directory,
\* print the manifest; either removal may raise
cleanup ==
    /\ pc = "cleanup"
    /\ \E outcome \in {"ok", "unlink_error", "rmdir_error"} :
          /\ audioFile' = IF outcome = "unlink_error" THEN audioFile ELSE "deleted"
          /\ IF outcome = "ok"
             THEN /\ pc' = "exit"
                  /\ exitStatus' = 0
                  /\ UNCHANGED failed
             ELSE /\ Raise("cleanup")
                  /\ UNCHANGED exitStatus
    /\ UNCHANGED <<input, config, total_duration, i, track_files, calls, disk>>
    /\ UNCHANGED tsVars

\* the except clauses of main with the temporary file removed on the way out
except_handler_cleanup ==
    /\ pc = "except"
    /\ pc' = "exit"
    /\ exitStatus' = 1
    /\ audioFile' = IF audioFile = "present" THEN "deleted" ELSE audioFile
    /\ UNCHANGED <<input, config, total_duration, i, track_files, calls, disk, failed>>
    /\ UNCHANGED tsVars

\* the except clauses of main with the album folder emptied on the way out
except_handler_rollback ==
    /\ pc = "except"
    /\ pc' = "exit"
    /\ exitStatus' = 1
    /\ disk' = <<>>
    /\ UNCHANGED <<input, config, audioFile, total_duration, i, track_files, calls,
                   failed>>
    /\ UNCHANGED tsVars

\* main, lines 291-298: both except clauses print a diagnostic and sys.exit(1)
except_handler ==
    /\ pc = "except"
    /\ pc' = "exit"
    /\ exitStatus' = 1
    /\ UNCHANGED <<input, config, audioFile, total_duration, i, track_files, calls,
                   disk, failed>>
    /\ UNCHANGED tsVars

Next ==
    \/ parse_config
    \/ download_audio
    \/ get_audio_duration
    \/ split_audio
    \/ add_metadata
    \/ cleanup
    \/ except_handler

Spec == Init /\ [][Next]_vars

\* ---------------------------------- timestamp_to_seconds as a pure function
InitTs ==
    /\ input = [exists |-> FALSE, lines |-> <<>>]
    /\ MainInit
    /\ ts \in TsStrings
    /\ tsDone = FALSE
    /\ tsResult = ValueError

apply_timestamp_to_seconds ==
    /\ ~tsDone
    /\ tsResult' = timestamp_to_seconds(ts)
    /\ tsDone' = TRUE
    /\ UNCHANGED ts
    /\ UNCHANGED mainVars

NextTs == apply_timestamp_to_seconds

SpecTs == InitTs /\ [][NextTs]_vars

\* ------------------------------------------------------------- properties
N == Len(config.tracklist)

TitleOf(k) == config.tracklist[k][1]

\* start offset of entry k as parsed from its timestamp
StartOf(k) == timestamp_to_seconds(config.tracklist[k][2]).val

IsTranscode(c) == c.cap = "transcode"

IsTag(c) == c.cap = "tag"

Transcodes == SelectSeq(calls, IsTranscode)

TagCalls == SelectSeq(calls, IsTag)

\* the prober has returned a duration, so the segment plan is determined
Probed == i >= 1

\* duration of segment k by the boundary rule: up to the next start, the
\* last one up to the end of the source
PlannedDuration(k) ==
    IF k < N THEN StartOf(k + 1) - StartOf(k) ELSE total_duration - StartOf(N)

BadPlan == Probed /\ \E k \in 1..N : PlannedDuration(k) <= 0

\* C1: whenever some computed segment duration is <= 0, the transcoder is
\* never invoked in that run, not even for the segments before the bad one,
\* and split_audio does not return a plan.
C1_BadPlanRefused ==
    BadPlan => /\ Transcodes = <<>>
               /\ pc \notin {"add_metadata", "cleanup"}
               /\ exitStatus # 0

WellFormedPlan ==
    /\ Probed
    /\ \A k \in 1..(N - 1) : StartOf(k) < StartOf(k + 1)
    /\ total_duration > StartOf(N)

SplitReturned ==
    pc \in {"add_metadata", "cleanup"} \/ failed \in {"tag", "cleanup"} \/ exitStatus = 0

\* C2: for strictly increasing starts and a total duration beyond the last
\* start, the k-th transcoder invocation gets the k-th parsed start and the
\* duration up to the next start (the last one up to the total duration),
\* every duration is > 0, and once split_audio has returned there were
\* exactly n invocations.
C2_TranscoderPairs ==
    WellFormedPlan =>
        /\ Len(Transcodes) <= N
        /\ \A k \in 1..Len(Transcodes) :
              /\ Transcodes[k].idx = k
              /\ Transcodes[k].ss = StartOf(k)
              /\ Transcodes[k].t = PlannedDuration(k)
              /\ Transcodes[k].t > 0
        /\ SplitReturned => Len(Transcodes) = N

C2_Witness ==
    /\ WellFormedPlan
    /\ pc = "add_metadata"
    /\ N = 3
    /\ total_duration = 400
    /\ Len(Transcodes) = 3
    /\ <<Transcodes[1].ss, Transcodes[2].ss, Transcodes[3].ss>> = <<0, 125, 300>>
    /\ <<Transcodes[1].t, Transcodes[2].t, Transcodes[3].t>> = <<125, 175, 100>>

Failing(c) == c.result # "ok"

SomeCallFailed == \E j \in 1..Len(calls) : Failing(calls[j])

\* C3: a failed invocation (fetch, probe, transcode of segment k, tag of file
\* k) is the last external invocation of the run, and the process then ends
\* with exit status 1.
C3_FailureAbortsRun ==
    /\ \A j \in 1..Len(calls) : Failing(calls[j]) => j = Len(calls)
    /\ SomeCallFailed => pc \in {"except", "exit"}
    /\ (SomeCallFailed /\ pc = "exit") => exitStatus = 1

C3_Witness ==
    /\ pc = "exit"
    /\ exitStatus = 1
    /\ N = 3
    /\ Len(Transcodes) = 2
    /\ Failing(calls[Len(calls)])
    /\ calls[Len(calls)].cap = "transcode"
    /\ calls[Len(calls)].idx = 2

AllSucceeded(s) == \A k \in 1..Len(s) : s[k].result = "ok"

\* C4: the fetched artifact is on disk at the prober invocation and at every
\* transcoder invocation; it is deleted only after all n transcoder and all
\* n tagger invocations succeeded, and never in a run in which an
\* invocation failed or the configuration was rejected.
C4_ArtifactLifetime ==
    /\ \A j \in 1..Len(calls) :
          calls[j].cap \in {"probe", "transcode"} => calls[j].artifact = "present"
    /\ audioFile = "deleted" =>
          /\ Len(Transcodes) = N /\ AllSucceeded(Transcodes)
          /\ Len(TagCalls) = N /\ AllSucceeded(TagCalls)
    /\ (SomeCallFailed \/ failed \in {"config", "fetch", "probe", "split", "tag"}) =>
          audioFile # "deleted"

C4_Witness ==
    /\ audioFile = "deleted"
    /\ exitStatus = 0
    /\ N = 3
    /\ \E j \in 1..Len(calls) : calls[j].cap = "transcode" /\ calls[j].artifact = "present"

\* C5: when the prober returns a non-positive duration the run is fatal: the
\* transcoder and the tagger are never invoked and the exit status is not 0.
C5_NonPositiveDurationFatal ==
    (Probed /\ total_duration <= 0) =>
        /\ Transcodes = <<>>
        /\ TagCalls = <<>>
        /\ exitStatus # 0

ParsedInput == ParseLines(EmptyConfig, input.lines)

BadConfig ==
    \/ ~input.exists
    \/ ParsedInput.url \in {None, <<>>}
    \/ ParsedInput.artist \in {None, <<>>}
    \/ ParsedInput.album \in {None, <<>>}
    \/ Len(ParsedInput.tracklist) = 0

\* C6: a configuration lacking url, artist, album or every tracklist line
\* ends the process with exit status 1 before any external invocation;
\* whenever an invocation was made the four are present.
C6_ConfigValidated ==
    /\ BadConfig => /\ calls = <<>>
                    /\ pc \in {"parse_config", "exit"}
                    /\ pc = "exit" => exitStatus = 1
    /\ calls # <<>> => /\ calls[1].cap = "fetch"
                       /\ config.url \notin {None, <<>>}
                       /\ config.artist \notin {None, <<>>}
                       /\ config.album \notin {None, <<>>}
                       /\ Len(config.tracklist) >= 1

C6_Witness ==
    /\ input.exists
    /\ ParsedInput.album = <<>>
    /\ ParsedInput.url = <<"x">>
    /\ ParsedInput.artist = <<"a">>
    /\ Len(ParsedInput.tracklist) = 2
    /\ pc = "exit"
    /\ exitStatus = 1
    /\ calls = <<>>

\* "k/n" written out in decimal
Fraction(k, n) == Str(k) \o <<"/">> \o Str(n)

\* C7: the tagger invocation for index k targets the file split_audio
\* produced for segment k and carries entry k's title and track "k/n"; a
\* tagged file on disk holds the slice, the title and the number of one and
\* the same entry.
C7_TagsMatchSegment ==
    /\ \A j \in 1..Len(TagCalls) :
          LET c == TagCalls[j]
          IN  /\ c.idx = j
              /\ c.file = OutputFile(j, TitleOf(j))
              /\ c.tags.title = TitleOf(j)
              /\ c.tags.trck = Fraction(j, N)
    /\ \A f \in DOMAIN disk :
          disk[f].tags # NoTags =>
              \E k \in 1..N :
                 /\ f = OutputFile(k, TitleOf(k))
                 /\ disk[f].ss = StartOf(k)
                 /\ disk[f].tags.title = TitleOf(k)
                 /\ disk[f].tags.trck = Fraction(k, N)

C7_Witness ==
    /\ N = 3
    /\ pc = "cleanup"
    /\ \E f \in DOMAIN disk :
          /\ disk[f].tags # NoTags
          /\ disk[f].tags.trck = <<"2", "/", "3">>
          /\ disk[f].tags.title = <<"B", "/", "C">>
          /\ f = <<"0", "2", " ", "-", " ", "B", "-", "C", ".", "m", "p", "3">>

\* C8: no invocation is ever repeated; a run in which no invocation fails
\* makes exactly fetch, probe, transcode 1..n, tag 1..n, in this order.
C8_ExactlyOnceInOrder ==
    /\ \A j1, j2 \in 1..Len(calls) :
          (calls[j1].cap = calls[j2].cap /\ calls[j1].idx = calls[j2].idx) => j1 = j2
    /\ (pc = "exit" /\ calls # <<>> /\ AllSucceeded(calls)) =>
          /\ Len(calls) = 2 + 2 * N
          /\ calls[1].cap = "fetch"
          /\ calls[2].cap = "probe"
          /\ \A k \in 1..N :
                /\ calls[2 + k].cap = "transcode" /\ calls[2 + k].idx = k
                /\ calls[2 + N + k].cap = "tag" /\ calls[2 + N + k].idx = k

C8_Witness ==
    /\ pc = "exit"
    /\ exitStatus = 0
    /\ N = 3
    /\ AllSucceeded(calls)
    /\ Len(calls) = 8

LastCall == calls[Len(calls)]

\* the file of segment k is on disk with the slice the transcoder wrote
SegmentOnDisk(k) ==
    /\ OutputFile(k, TitleOf(k)) \in DOMAIN disk
    /\ disk[OutputFile(k, TitleOf(k))].ss = StartOf(k)
    /\ disk[OutputFile(k, TitleOf(k))].t = Duration(config.tracklist, k, total_duration)
    /\ disk[OutputFile(k, TitleOf(k))].complete

OutputsKept ==
    (pc \in {"except", "exit"} /\ calls # <<>> /\ Failing(LastCall)) =>
        /\ LastCall.cap = "transcode" => \A k \in 1..(LastCall.idx - 1) : SegmentOnDisk(k)
        /\ LastCall.cap = "tag" =>
              /\ \A k \in 1..N : SegmentOnDisk(k)
              /\ \A k \in 1..(LastCall.idx - 1) :
                    disk[OutputFile(k, TitleOf(k))].tags # NoTags

ErrorPathKeepsDisk == pc = "except" => disk' = disk

\* C9: after a transcoder failure on segment k the files of segments 1..k-1,
\* and after a tagger failure all n segment files, are on disk as produced,
\* and the error path changes no output file.
C9_NoRollback == []OutputsKept /\ [][ErrorPathKeepsDisk]_vars

C9_Witness ==
    /\ pc = "exit"
    /\ exitStatus = 1
    /\ N = 3
    /\ LastCall.cap = "transcode"
    /\ LastCall.idx = 3
    /\ Failing(LastCall)
    /\ SegmentOnDisk(1)
    /\ SegmentOnDisk(2)

AllDigits(f) == f # <<>> /\ \A k \in 1..Len(f) : IsDigit(f[k])

\* the grammar D+:D+ or D+:D+:D+
TsGrammar(s) ==
    LET parts == Split(s, ":")
    IN  Len(parts) \in {2, 3} /\ \A k \in 1..Len(parts) : AllDigits(parts[k])

\* fields weighted 60/1 or 3600/60/1
WeightedSum(s) ==
    LET parts == Split(s, ":")
    IN  IF Len(parts) = 2
        THEN DecimalValue(parts[1]) * 60 + DecimalValue(parts[2])
        ELSE DecimalValue(parts[1]) * 3600 + DecimalValue(parts[2]) * 60
                 + DecimalValue(parts[3])

\* C10: timestamp_to_seconds returns the weighted sum, non-negative, for a
\* string of two or three all-digit fields, and raises for every other
\* string.
C10_TimestampContract ==
    tsDone => IF TsGrammar(ts)
              THEN tsResult.ok /\ tsResult.val = WeightedSum(ts) /\ tsResult.val >= 0
              ELSE ~tsResult.ok
====
